---- MODULE Spec2Model ----
(***************************************************************************)
(* The chart-pattern detectors of utils/pattern_detection.py.              *)
(*                                                                         *)
(* A price series is a function from the bar index 0..n-1 to a bar, a      *)
(* record [High, Low, Close] of positive integer prices.  Every float      *)
(* comparison of the source is modelled by the exact rational comparison,  *)
(* cross-multiplied into integers (prices are positive, so the direction   *)
(* of an inequality is kept):  abs(p1-p2)/p1 > 0.03*(11-s)  becomes        *)
(* abs(p1-p2)*100 > 3*(11-s)*p1.                                           *)
(*                                                                         *)
(* The retry wrapper and record_trade of database.py follow the detectors: *)
(* the database is the variable bank, amounts are integers.                *)
(***************************************************************************)
EXTENDS Integers, Sequences, FiniteSets, TLC

VARIABLES
    data,         \* the DataFrame handed to the detectors
    sensitivity,  \* the sensitivity argument
    window,       \* the window argument
    last,         \* the most recent detector call and what it returned
    pc,           \* concurrent run: where each detector's thread is
    extrema,      \* concurrent run: each thread's local max_idx / min_idx
    returned,     \* concurrent run: each thread's return value
    first,        \* history: what each detector returned when first called
    store,        \* the rows save_pattern_detection has written
    error,        \* the exception the analysis block of app.py has caught
    retry,        \* a call through safe_db_operation: its loop and history
    bank,         \* the database: users, balances, positions, trades
    sess,         \* concurrent record_trade: each thread's session
    ledger,       \* history: the value of the trades that reported success
    trade_result  \* what the latest record_trade call returned

\* the variables of the detectors and of the database functions
detvars == <<data, sensitivity, window, last, pc, extrema, returned, first,
             store, error>>

dbvars == <<retry, bank, sess, ledger, trade_result>>

vars == <<data, sensitivity, window, last, pc, extrema, returned, first, store,
          error, retry, bank, sess, ledger, trade_result>>

----------------------------------------------------------------------------
(* Bounds of the model *)

\* longest enumerated series when all six detectors are called
MaxLen == 5

\* longest constant-price series
MaxLenFlat == 12

\* longest enumerated series for the double bottom / double top calls
MaxLenDouble == 7

\* longest enumerated series for the head-and-shoulders calls
MaxLenHS == 8

\* largest window of the sensitivity-mapping runs
MaxWindow == 40

\* the price levels of the enumerated bars
PriceLevels == {100, 110, 130}

\* most rows kept in the table of saved detections
MaxStore == 3

\* the Highs of the peaks and the Lows of the troughs of the enumerated
\* zigzag series, and the numbers of bars after their last extremum
PeakLevels == {120, 123, 126, 140}

TroughLevels == {90, 100, 102}

TailLengths == {1, 5, 6}

\* window arguments passed to the detectors
Windows == {4, 20}

\* window arguments of the head-and-shoulders runs (order 1)
HSWindows == {4}

\* the sensitivity slider, app.py: st.slider("Sensitivity", 1, 10)
Sensitivities == 1..10

\* mirror constants, each larger than every price of the model
MirrorConstants == {140, 2000}

----------------------------------------------------------------------------
(* Helpers: numpy / Python primitives *)

Abs(x) == IF x < 0 THEN -x ELSE x

Max2(a, b) == IF a >= b THEN a ELSE b

\* len(values)
Size(vals) == Cardinality(DOMAIN vals)

\* data['Low'].values and friends: one column of the frame
Column(d, name) == [i \in DOMAIN d |-> d[i][name]]

\* np.max / np.min of a non-empty set of values
SetMax(S) == CHOOSE x \in S : \A y \in S : y <= x

SetMin(S) == CHOOSE x \in S : \A y \in S : x <= y

\* the elements of a finite set of integers as an ascending list
RECURSIVE Ascending(_)
Ascending(S) ==
    IF S = {} THEN <<>>
    ELSE LET m == SetMin(S) IN <<m>> \o Ascending(S \ {m})

\* ndarray.take(index, mode='clip')
Clip(i, n) == IF i < 0 THEN 0 ELSE IF i > n - 1 THEN n - 1 ELSE i

\* np.less / np.greater in place of np.less_equal / np.greater_equal
CompareStrict(comparator, a, b) ==
    IF comparator = "less_equal" THEN a < b ELSE a > b

\* np.less_equal / np.greater_equal
Compare(comparator, a, b) ==
    IF comparator = "less_equal" THEN a <= b ELSE a >= b

\* scipy.signal.argrelextrema(vals, comparator, order=order)[0] as a list
argrelextrema(vals, comparator, order) ==
    LET n == Size(vals)
        IsExtremum(i) ==
            \A shift \in 1..order :
                /\ Compare(comparator, vals[i], vals[Clip(i + shift, n)])
                /\ Compare(comparator, vals[i], vals[Clip(i - shift, n)])
    IN  Ascending({i \in 0..(n - 1) : IsExtremum(i)})

\* the (i, j) of  for i in range(k - 1): for j in range(i + 1, k)  in loop
\* order, as 1-based positions of a list of length k
PairRank(i, j, k) == (i - 1) * k - ((i - 1) * i) \div 2 + (j - i)

PairsInLoopOrder(k) ==
    [r \in 1..((k * (k - 1)) \div 2) |->
        CHOOSE p \in (1..k) \X (1..k) : p[1] < p[2] /\ PairRank(p[1], p[2], k) = r]

\* first index of the minimum / maximum of vals[lo:hi] (np.argmin + lo)
ArgMin(vals, lo, hi) ==
    LET m == SetMin({vals[k] : k \in lo..(hi - 1)})
    IN  SetMin({k \in lo..(hi - 1) : vals[k] = m})

ArgMax(vals, lo, hi) ==
    LET m == SetMax({vals[k] : k \in lo..(hi - 1)})
    IN  SetMin({k \in lo..(hi - 1) : vals[k] = m})

\* the close the confirmation looks at: 5 bars after idx, else the last one
ConfirmIdx(idx, n) == IF idx + 5 < n THEN idx + 5 ELSE n - 1

----------------------------------------------------------------------------
(* Sensitivity to parameters *)

\* tolerance = 0.03 * (11 - sensitivity), in percent
DoubleTolerance(s) == 3 * (11 - s)

\* DoubleMinDistance scaled by the sensitivity instead of 11 - sensitivity
DoubleMinDistanceRising(s, w) ==
    IF 5 >= (w * 7 * s) \div 100 THEN 5 ELSE (w * 7 * s) \div 100

\* min_distance = max(5, int(window * 0.7 * (11 - sensitivity) / 10))
DoubleMinDistance(s, w) == Max2(5, (w * 7 * (11 - s)) \div 100)

\* order = max(int(window / 4), 1)
DoubleOrder(w) == Max2(w \div 4, 1)

----------------------------------------------------------------------------
(* detect_double_bottom *)

\* DoubleBottomTest without the fallback on the last close: a pattern whose
\* second bottom is within 5 bars of the end is never confirmed
DoubleBottomTestNoFallback(d, s, w, idx1, idx2) ==
    LET close_prices == Column(d, "Close")
        lows == Column(d, "Low")
        n == Size(close_prices)
        price1 == lows[idx1]
        price2 == lows[idx2]
        max_between == SetMax({close_prices[k] : k \in idx1..(idx2 - 1)})
    IN  /\ ~(idx2 - idx1 < DoubleMinDistance(s, w))
        /\ ~(Abs(price1 - price2) * 100 > DoubleTolerance(s) * price1)
        /\ ~(\/ (max_between - price1) * 100 < 2 * price1
             \/ (max_between - price2) * 100 < 2 * price2)
        /\ idx2 + 5 < n
        /\ close_prices[idx2 + 5] > price2

\* DoubleBottomTest confirming on a close equal to the second bottom
DoubleBottomTestLooseConfirm(d, s, w, idx1, idx2) ==
    LET close_prices == Column(d, "Close")
        lows == Column(d, "Low")
        n == Size(close_prices)
        price1 == lows[idx1]
        price2 == lows[idx2]
        max_between == SetMax({close_prices[k] : k \in idx1..(idx2 - 1)})
    IN  /\ ~(idx2 - idx1 < DoubleMinDistance(s, w))
        /\ ~(Abs(price1 - price2) * 100 > DoubleTolerance(s) * price1)
        /\ ~(\/ (max_between - price1) * 100 < 2 * price1
             \/ (max_between - price2) * 100 < 2 * price2)
        /\ close_prices[ConfirmIdx(idx2, n)] >= price2

DoubleBottomTest(d, s, w, idx1, idx2) ==
    LET close_prices == Column(d, "Close")
        lows == Column(d, "Low")
        n == Size(close_prices)
        price1 == lows[idx1]
        price2 == lows[idx2]
        max_between == SetMax({close_prices[k] : k \in idx1..(idx2 - 1)})
    IN  /\ ~(idx2 - idx1 < DoubleMinDistance(s, w))
        /\ ~(Abs(price1 - price2) * 100 > DoubleTolerance(s) * price1)
        /\ ~(\/ (max_between - price1) * 100 < 2 * price1
             \/ (max_between - price2) * 100 < 2 * price2)
        /\ close_prices[ConfirmIdx(idx2, n)] > price2

\* DoubleBottomMatch pairing each trough with the next one only
DoubleBottomMatchAdjacent(d, s, w, min_idx) ==
    LET Keep(i) == DoubleBottomTest(d, s, w, min_idx[i], min_idx[i + 1])
        kept == SelectSeq([i \in 1..(Len(min_idx) - 1) |-> i], Keep)
    IN  [k \in 1..Len(kept) |-> <<min_idx[kept[k]], min_idx[kept[k] + 1]>>]

\* the two nested loops over the trough extrema min_idx
DoubleBottomMatch(d, s, w, min_idx) ==
    LET cand == PairsInLoopOrder(Len(min_idx))
        Keep(p) == DoubleBottomTest(d, s, w, min_idx[p[1]], min_idx[p[2]])
        kept == SelectSeq(cand, Keep)
    IN  [k \in 1..Len(kept) |-> <<min_idx[kept[k][1]], min_idx[kept[k][2]]>>]

detect_double_bottom(d, s, w) ==
    DoubleBottomMatch(d, s, w,
        argrelextrema(Column(d, "Low"), "less_equal", DoubleOrder(w)))

----------------------------------------------------------------------------
(* detect_double_top *)

\* DoubleTopTest with the confirmation of the double bottom (a rise)
DoubleTopTestRising(d, s, w, idx1, idx2) ==
    LET close_prices == Column(d, "Close")
        highs == Column(d, "High")
        n == Size(close_prices)
        price1 == highs[idx1]
        price2 == highs[idx2]
        min_between == SetMin({close_prices[k] : k \in idx1..(idx2 - 1)})
    IN  /\ ~(idx2 - idx1 < DoubleMinDistance(s, w))
        /\ ~(Abs(price1 - price2) * 100 > DoubleTolerance(s) * price1)
        /\ ~(\/ (price1 - min_between) * 100 < 2 * price1
             \/ (price2 - min_between) * 100 < 2 * price2)
        /\ close_prices[ConfirmIdx(idx2, n)] > price2

DoubleTopTest(d, s, w, idx1, idx2) ==
    LET close_prices == Column(d, "Close")
        highs == Column(d, "High")
        n == Size(close_prices)
        price1 == highs[idx1]
        price2 == highs[idx2]
        min_between == SetMin({close_prices[k] : k \in idx1..(idx2 - 1)})
    IN  /\ ~(idx2 - idx1 < DoubleMinDistance(s, w))
        /\ ~(Abs(price1 - price2) * 100 > DoubleTolerance(s) * price1)
        /\ ~(\/ (price1 - min_between) * 100 < 2 * price1
             \/ (price2 - min_between) * 100 < 2 * price2)
        /\ close_prices[ConfirmIdx(idx2, n)] < price2

\* the two nested loops over the peak extrema max_idx
DoubleTopMatch(d, s, w, max_idx) ==
    LET cand == PairsInLoopOrder(Len(max_idx))
        Keep(p) == DoubleTopTest(d, s, w, max_idx[p[1]], max_idx[p[2]])
        kept == SelectSeq(cand, Keep)
    IN  [k \in 1..Len(kept) |-> <<max_idx[kept[k][1]], max_idx[kept[k][2]]>>]

detect_double_top(d, s, w) ==
    DoubleTopMatch(d, s, w,
        argrelextrema(Column(d, "High"), "greater_equal", DoubleOrder(w)))

----------------------------------------------------------------------------
(* detect_head_and_shoulders / detect_inverse_head_and_shoulders *)

\* tolerance = 0.05 * (11 - sensitivity), in percent
HSTolerance(s) == 5 * (11 - s)

\* min_distance = max(3, int(window * 0.2 * (11 - sensitivity) / 10))
HSMinDistance(s, w) == Max2(3, (w * 2 * (11 - s)) \div 100)

\* order = max(int(window / 6), 1)
HSOrder(w) == Max2(w \div 6, 1)

\* the body of the loop over three consecutive peaks: <<the five indices>>
\* when the candidate is appended, <<>> when it is skipped
HeadAndShouldersAt(d, s, w, peak1_idx, peak2_idx, peak3_idx) ==
    LET highs == Column(d, "High")
        lows == Column(d, "Low")
        closes == Column(d, "Close")
        n == Size(highs)
        peak1 == highs[peak1_idx]
        peak2 == highs[peak2_idx]
        peak3 == highs[peak3_idx]
        trough1_idx == ArgMin(lows, peak1_idx, peak2_idx)
        trough2_idx == ArgMin(lows, peak2_idx, peak3_idx)
        trough1 == lows[trough1_idx]
        trough2 == lows[trough2_idx]
        \* close < (trough1 + trough2) / 2, or the fallback on the last close
        confirmation ==
            IF peak3_idx + 5 < n
            THEN 2 * closes[peak3_idx + 5] < trough1 + trough2
            ELSE closes[n - 1] < closes[peak3_idx]
    IN  IF \/ peak2_idx - peak1_idx < HSMinDistance(s, w)
           \/ peak3_idx - peak2_idx < HSMinDistance(s, w)
        THEN <<>>
        ELSE IF peak2 <= peak1 \/ peak2 <= peak3 THEN <<>>
        ELSE IF Abs(peak1 - peak3) * 100 > HSTolerance(s) * peak1 THEN <<>>
        ELSE IF Abs(trough1 - trough2) * 100 > HSTolerance(s) * trough1 THEN <<>>
        ELSE IF confirmation
             THEN <<<<peak1_idx, trough1_idx, peak2_idx, trough2_idx, peak3_idx>>>>
             ELSE <<>>

RECURSIVE HeadAndShouldersFrom(_, _, _, _, _)
HeadAndShouldersFrom(d, s, w, max_idx, i) ==
    IF i + 2 > Len(max_idx) THEN <<>>
    ELSE HeadAndShouldersAt(d, s, w, max_idx[i], max_idx[i + 1], max_idx[i + 2])
         \o HeadAndShouldersFrom(d, s, w, max_idx, i + 1)

HeadAndShouldersMatch(d, s, w, max_idx) ==
    IF Len(max_idx) < 3 THEN <<>>
    ELSE HeadAndShouldersFrom(d, s, w, max_idx, 1)

detect_head_and_shoulders(d, s, w) ==
    HeadAndShouldersMatch(d, s, w,
        argrelextrema(Column(d, "High"), "greater_equal", HSOrder(w)))

InverseHeadAndShouldersAt(d, s, w, trough1_idx, trough2_idx, trough3_idx) ==
    LET highs == Column(d, "High")
        lows == Column(d, "Low")
        closes == Column(d, "Close")
        n == Size(lows)
        trough1 == lows[trough1_idx]
        trough2 == lows[trough2_idx]
        trough3 == lows[trough3_idx]
        peak1_idx == ArgMax(highs, trough1_idx, trough2_idx)
        peak2_idx == ArgMax(highs, trough2_idx, trough3_idx)
        peak1 == highs[peak1_idx]
        peak2 == highs[peak2_idx]
        confirmation ==
            IF trough3_idx + 5 < n
            THEN 2 * closes[trough3_idx + 5] > peak1 + peak2
            ELSE closes[n - 1] > closes[trough3_idx]
    IN  IF \/ trough2_idx - trough1_idx < HSMinDistance(s, w)
           \/ trough3_idx - trough2_idx < HSMinDistance(s, w)
        THEN <<>>
        ELSE IF trough2 >= trough1 \/ trough2 >= trough3 THEN <<>>
        ELSE IF Abs(trough1 - trough3) * 100 > HSTolerance(s) * trough1 THEN <<>>
        ELSE IF Abs(peak1 - peak2) * 100 > HSTolerance(s) * peak1 THEN <<>>
        ELSE IF confirmation
             THEN <<<<trough1_idx, peak1_idx, trough2_idx, peak2_idx, trough3_idx>>>>
             ELSE <<>>

RECURSIVE InverseHeadAndShouldersFrom(_, _, _, _, _)
InverseHeadAndShouldersFrom(d, s, w, min_idx, i) ==
    IF i + 2 > Len(min_idx) THEN <<>>
    ELSE InverseHeadAndShouldersAt(d, s, w, min_idx[i], min_idx[i + 1], min_idx[i + 2])
         \o InverseHeadAndShouldersFrom(d, s, w, min_idx, i + 1)

InverseHeadAndShouldersMatch(d, s, w, min_idx) ==
    IF Len(min_idx) < 3 THEN <<>>
    ELSE InverseHeadAndShouldersFrom(d, s, w, min_idx, 1)

detect_inverse_head_and_shoulders(d, s, w) ==
    InverseHeadAndShouldersMatch(d, s, w,
        argrelextrema(Column(d, "Low"), "less_equal", HSOrder(w)))

----------------------------------------------------------------------------
(* detect_triangle *)

\* min_duration = max(7, int(window * 0.5 * (11 - sensitivity) / 10))
TriangleMinDuration(s, w) == Max2(7, (w * 5 * (11 - s)) \div 100)

\* order = max(int(window / 8), 1)
TriangleOrder(w) == Max2(w \div 8, 1)

\* [t for t in idxs if t > lo and t < hi]
Between(idxs, lo, hi) ==
    LET Inside(t) == t > lo /\ t < hi
    IN  SelectSeq(idxs, Inside)

\* np.std(prices) / np.mean(prices) > 0.03 for the three prices at idxs:
\* with S the sum and Q the sum of squares, std^2 = (3Q - S^2) / 9 and
\* mean^2 = S^2 / 9
StdOverMeanAbove3Percent(vals, idxs) ==
    LET S == vals[idxs[1]] + vals[idxs[2]] + vals[idxs[3]]
        Q == vals[idxs[1]] * vals[idxs[1]] + vals[idxs[2]] * vals[idxs[2]]
             + vals[idxs[3]] * vals[idxs[3]]
    IN  (3 * Q - S * S) * 10000 > 9 * S * S

\* all(prices[i] < prices[i+1] ...) / all(prices[i] > prices[i+1] ...)
StrictlyRising(vals, idxs) ==
    \A k \in 1..(Len(idxs) - 1) : vals[idxs[k]] < vals[idxs[k + 1]]

StrictlyFalling(vals, idxs) ==
    \A k \in 1..(Len(idxs) - 1) : vals[idxs[k]] > vals[idxs[k + 1]]

\* abs(actual - expected) / expected > 0.02 with expected = en / ed, ed > 0.
\* numpy division: a zero expected price gives inf (nan for 0/0), a
\* negative one a negative ratio
BreakoutRatioAbove2Percent(actual, en, ed) ==
    IF en > 0 THEN Abs(actual * ed - en) * 100 > 2 * en
    ELSE IF en = 0 THEN actual # 0
    ELSE FALSE

\* a convergence test that only rejects a convergence before the third peak
ConvergesOutsideEarlyOnly(xnp, xdp, peak3_idx, w) == xnp < peak3_idx * xdp

\* x_converge < peak3_idx or x_converge > peak3_idx + window, with
\* x_converge = xnp / xdp and xdp > 0
ConvergesOutside(xnp, xdp, peak3_idx, w) ==
    xnp < peak3_idx * xdp \/ xnp > (peak3_idx + w) * xdp

\* the body of the symmetric loop for three consecutive peaks
SymmetricAt(d, s, w, min_idx, peak1_idx, peak2_idx, peak3_idx) ==
    LET highs == Column(d, "High")
        lows == Column(d, "Low")
        closes == Column(d, "Close")
        n == Size(highs)
        peak1 == highs[peak1_idx]
        peak2 == highs[peak2_idx]
        peak3 == highs[peak3_idx]
        troughs == Between(min_idx, peak1_idx, peak3_idx)
        trough1_idx == troughs[1]
        trough2_idx == troughs[Len(troughs)]
        trough1 == lows[trough1_idx]
        trough2 == lows[trough2_idx]
        \* peak_slope = pa / pb, trough_slope = ta / tb  (pb > 0, tb > 0)
        pa == peak3 - peak1
        pb == peak3_idx - peak1_idx
        ta == trough2 - trough1
        tb == trough2_idx - trough1_idx
        \* x_converge = xn / xd
        xn == (trough1 - peak1) * pb * tb - ta * pb * trough1_idx
              + pa * tb * peak1_idx
        xd == pa * tb - ta * pb
        \* sign-normalised so that the denominator is positive
        xnp == IF xd < 0 THEN -xn ELSE xn
        xdp == Abs(xd)
        \* y_converge = peak1 + peak_slope * (x_converge - peak1_idx)
        yn == peak1 * pb * xdp + pa * (xnp - peak1_idx * xdp)
        yd == pb * xdp
        breakout ==
            IF peak3_idx + 5 < n
            THEN BreakoutRatioAbove2Percent(closes[peak3_idx + 5],
                     peak1 * pb + pa * (peak3_idx + 5 - peak1_idx), pb)
            ELSE FALSE
    IN  IF peak3_idx - peak1_idx < TriangleMinDuration(s, w) THEN <<>>
        ELSE IF peak1 <= peak2 \/ peak2 <= peak3 THEN <<>>
        ELSE IF Len(troughs) < 2 THEN <<>>
        ELSE IF trough1 >= trough2 THEN <<>>
        ELSE IF pa * ta >= 0 THEN <<>>
        \* abs(peak_slope - trough_slope) > 1e-10: the difference is the
        \* fraction xd / (pb * tb) with integer xd and pb * tb far below 1e10
        ELSE IF xd = 0 THEN <<>>
        ELSE IF ConvergesOutside(xnp, xdp, peak3_idx, w) THEN <<>>
        ELSE <<[type |-> "Symmetric",
                points |-> <<peak1_idx, trough1_idx, peak2_idx, trough2_idx,
                             peak3_idx>>,
                \* int(x_converge), x_converge >= peak3_idx >= 0
                converge_x |-> xnp \div xdp,
                converge_y |-> <<yn, yd>>,
                breakout |-> breakout]>>

\* the body of the ascending loop for peaks = max_idx[i:i+3]
AscendingAt(d, s, w, min_idx, peaks) ==
    LET highs == Column(d, "High")
        lows == Column(d, "Low")
        closes == Column(d, "Close")
        n == Size(highs)
        troughs == Between(min_idx, peaks[1], peaks[3])
        total == highs[peaks[1]] + highs[peaks[2]] + highs[peaks[3]]
        breakout ==
            IF peaks[3] + 5 < n THEN 3 * closes[peaks[3] + 5] > total
            ELSE FALSE
    IN  IF peaks[3] - peaks[1] < TriangleMinDuration(s, w) THEN <<>>
        ELSE IF StdOverMeanAbove3Percent(highs, peaks) THEN <<>>
        ELSE IF Len(troughs) < 2 THEN <<>>
        ELSE IF ~StrictlyRising(lows, troughs) THEN <<>>
        ELSE <<[type |-> "Ascending",
                points |-> <<peaks[1], troughs[1], peaks[2],
                             troughs[Len(troughs)], peaks[3]>>,
                converge_x |-> peaks[3] + TriangleMinDuration(s, w),
                converge_y |-> <<total, 3>>,
                breakout |-> breakout]>>

\* the body of the descending loop for troughs = min_idx[i:i+3]
DescendingAt(d, s, w, max_idx, troughs) ==
    LET highs == Column(d, "High")
        lows == Column(d, "Low")
        closes == Column(d, "Close")
        n == Size(lows)
        peaks == Between(max_idx, troughs[1], troughs[3])
        total == lows[troughs[1]] + lows[troughs[2]] + lows[troughs[3]]
        breakout ==
            IF troughs[3] + 5 < n THEN 3 * closes[troughs[3] + 5] < total
            ELSE FALSE
    IN  IF troughs[3] - troughs[1] < TriangleMinDuration(s, w) THEN <<>>
        ELSE IF StdOverMeanAbove3Percent(lows, troughs) THEN <<>>
        ELSE IF Len(peaks) < 2 THEN <<>>
        ELSE IF ~StrictlyFalling(highs, peaks) THEN <<>>
        ELSE <<[type |-> "Descending",
                points |-> <<peaks[1], troughs[1], peaks[Len(peaks)],
                             troughs[2], troughs[3]>>,
                converge_x |-> troughs[3] + TriangleMinDuration(s, w),
                converge_y |-> <<total, 3>>,
                breakout |-> breakout]>>

RECURSIVE SymmetricFrom(_, _, _, _, _, _)
SymmetricFrom(d, s, w, max_idx, min_idx, i) ==
    IF i + 2 > Len(max_idx) THEN <<>>
    ELSE SymmetricAt(d, s, w, min_idx, max_idx[i], max_idx[i + 1], max_idx[i + 2])
         \o SymmetricFrom(d, s, w, max_idx, min_idx, i + 1)

RECURSIVE AscendingFrom(_, _, _, _, _, _)
AscendingFrom(d, s, w, max_idx, min_idx, i) ==
    IF i + 2 > Len(max_idx) THEN <<>>
    ELSE AscendingAt(d, s, w, min_idx, SubSeq(max_idx, i, i + 2))
         \o AscendingFrom(d, s, w, max_idx, min_idx, i + 1)

RECURSIVE DescendingFrom(_, _, _, _, _, _)
DescendingFrom(d, s, w, max_idx, min_idx, i) ==
    IF i + 2 > Len(min_idx) THEN <<>>
    ELSE DescendingAt(d, s, w, max_idx, SubSeq(min_idx, i, i + 2))
         \o DescendingFrom(d, s, w, max_idx, min_idx, i + 1)

TriangleMatch(d, s, w, max_idx, min_idx) ==
    IF Len(max_idx) < 3 \/ Len(min_idx) < 3 THEN <<>>
    ELSE SymmetricFrom(d, s, w, max_idx, min_idx, 1)
         \o AscendingFrom(d, s, w, max_idx, min_idx, 1)
         \o DescendingFrom(d, s, w, max_idx, min_idx, 1)

detect_triangle(d, s, w) ==
    TriangleMatch(d, s, w,
        argrelextrema(Column(d, "High"), "greater_equal", TriangleOrder(w)),
        argrelextrema(Column(d, "Low"), "less_equal", TriangleOrder(w)))

----------------------------------------------------------------------------
(* find_support_resistance *)

\* num_touches = max(2, 6 - int(sensitivity / 2))
NumTouches(s) == Max2(2, 6 - (s \div 2))

\* price_threshold = 0.02 * (11 - sensitivity), in percent
PriceThreshold(s) == 2 * (11 - s)

\* order = max(int(window / 5), 1)
SROrder(w) == Max2(w \div 5, 1)

\* Touches without  if i == idx: continue
TouchesWithSelf(vals, idx, threshold) ==
    Cardinality({i \in DOMAIN vals :
                    Abs(vals[i] - vals[idx]) * 100 < threshold * vals[idx]})

\* Touches with the comparison inverted: the bars outside the threshold
TouchesOutside(vals, idx, threshold) ==
    Cardinality({i \in DOMAIN vals :
                    /\ i # idx
                    /\ Abs(vals[i] - vals[idx]) * 100 > threshold * vals[idx]})

\* Touches with a bar exactly at the threshold counted too
TouchesInclusive(vals, idx, threshold) ==
    Cardinality({i \in DOMAIN vals :
                    /\ i # idx
                    /\ Abs(vals[i] - vals[idx]) * 100 <= threshold * vals[idx]})

\* the inner loop: the bars other than idx within threshold (percent) of
\* the level vals[idx]
Touches(vals, idx, threshold) ==
    Cardinality({i \in DOMAIN vals :
                    /\ i # idx
                    /\ Abs(vals[i] - vals[idx]) * 100 < threshold * vals[idx]})

ConfirmedLevels(vals, idxs, s) ==
    LET Keep(idx) == Touches(vals, idx, PriceThreshold(s)) >= NumTouches(s)
    IN  SelectSeq(idxs, Keep)

SupportResistanceMatch(d, s, resistance_idx, support_idx) ==
    <<ConfirmedLevels(Column(d, "Low"), support_idx, s),
      ConfirmedLevels(Column(d, "High"), resistance_idx, s)>>

find_support_resistance(d, s, w) ==
    SupportResistanceMatch(d, s,
        argrelextrema(Column(d, "High"), "greater_equal", SROrder(w)),
        argrelextrema(Column(d, "Low"), "less_equal", SROrder(w)))

----------------------------------------------------------------------------
(* Inputs *)

PointBar(p) == [High |-> p, Low |-> p, Close |-> p]

BarKinds == {PointBar(p) : p \in PriceLevels}

SeriesUpTo(len) == UNION {[0..(n - 1) -> BarKinds] : n \in 0..len}

\* a series from its Low = Close values, the High one above the Close
SeriesOf(closes) ==
    [i \in 0..(Len(closes) - 1) |->
        [High |-> closes[i + 1] + 1, Low |-> closes[i + 1], Close |-> closes[i + 1]]]

\* the 22-bar double bottom of the specification's testable properties
ExampleCloses ==
    <<10, 9, 8, 7, 6, 5, 6, 7, 8, 9, 10, 11, 10, 9, 8, 7, 6, 5, 6, 8, 10, 12>>

ExampleSeries == SeriesOf(ExampleCloses)

\* seven bars with a wide range (High 130, Low 100, Close 110) at 0 and 5
WideBar == [High |-> 130, Low |-> 100, Close |-> 110]

WideSeries == [i \in 0..6 |-> IF i \in {0, 5} THEN WideBar ELSE PointBar(110)]

\* eight bars: shoulders at 0 and 6, head at 3
HSSeries ==
    [i \in 0..7 |-> PointBar(<<100, 100, 110, 130, 110, 100, 110, 100>>[i + 1])]

SampleSeries == {ExampleSeries, WideSeries, HSSeries}

\* seven bars: a wide first bar (Low 100, Close 110), five bars at 100, a
\* last bar at 110
OwnCloseSeries ==
    [i \in 0..6 |-> IF i = 0 THEN WideBar
                    ELSE IF i = 6 THEN PointBar(110) ELSE PointBar(100)]

\* thirteen bars: bottoms of 100 at 0, 5 and 11 between bars of 130
TripleBottomSeries ==
    [i \in 0..12 |-> IF i \in {0, 5, 11} THEN PointBar(100) ELSE PointBar(130)]

DoubleSamples == {OwnCloseSeries, TripleBottomSeries}

\* eight bars: shoulders of 120 at 0 and 6, head of 130 at 3; the left
\* shoulder's bar has the lowest Low (100) up to the head, the bars between
\* it and the head have Low 108
HSWideSeries ==
    [i \in 0..7 |->
        <<[High |-> 120, Low |-> 100, Close |-> 110],
          [High |-> 110, Low |-> 108, Close |-> 109],
          [High |-> 110, Low |-> 108, Close |-> 109],
          [High |-> 130, Low |-> 125, Close |-> 128],
          [High |-> 110, Low |-> 100, Close |-> 105],
          [High |-> 110, Low |-> 100, Close |-> 105],
          [High |-> 120, Low |-> 110, Close |-> 118],
          [High |-> 106, Low |-> 104, Close |-> 105]>>[i + 1]]

\* a series from its bars <<High, Low, Close>>
Bars(rows) ==
    [i \in 0..(Len(rows) - 1) |->
        [High |-> rows[i + 1][1], Low |-> rows[i + 1][2], Close |-> rows[i + 1][3]]]

\* ten bars: peaks of 120, 120, 121 at 1, 5, 9 over the rising troughs 100,
\* 105 at 3, 7; the last bar closes at its High
AscendingSeries ==
    Bars(<<<<110, 100, 105>>, <<120, 106, 118>>, <<110, 104, 107>>,
           <<108, 100, 104>>, <<110, 104, 107>>, <<120, 106, 118>>,
           <<110, 106, 107>>, <<108, 105, 106>>, <<110, 106, 107>>,
           <<121, 107, 121>>>>)

\* ten bars: troughs of 100, 100, 99 at 1, 5, 9 under the falling peaks 130,
\* 120 at 3, 7; the last bar closes at its Low
DescendingSeries ==
    Bars(<<<<112, 106, 110>>, <<110, 100, 105>>, <<115, 104, 110>>,
           <<130, 106, 120>>, <<115, 104, 110>>, <<110, 100, 105>>,
           <<114, 104, 110>>, <<120, 106, 115>>, <<114, 104, 110>>,
           <<110, 99, 99>>>>)

\* ten bars: falling peaks 130, 120, 110 at 0, 4, 8 over the rising troughs
\* 90, 100 at 2, 6
SymmetricSeries ==
    Bars(<<<<130, 110, 120>>, <<115, 95, 105>>, <<105, 90, 100>>,
           <<115, 95, 105>>, <<120, 105, 110>>, <<108, 102, 105>>,
           <<104, 100, 102>>, <<108, 102, 105>>, <<110, 105, 108>>,
           <<108, 100, 104>>>>)

\* sixteen bars: peaks 30, 20, 10 at 0, 5, 10, so that the line through the
\* first and the last peak reaches the price 0 at bar 15; troughs 2, 4 at 2, 8
SteepSeries ==
    Bars(<<<<30, 25, 25>>, <<15, 10, 10>>, <<12, 2, 2>>, <<15, 10, 10>>,
           <<18, 12, 12>>, <<20, 14, 14>>, <<14, 10, 10>>, <<9, 6, 6>>,
           <<8, 4, 4>>, <<9, 6, 6>>, <<10, 8, 8>>, <<9, 7, 7>>, <<8, 6, 6>>,
           <<7, 5, 5>>, <<6, 4, 4>>, <<5, 3, 3>>>>)

\* thirty-one bars, High = Close + 2 and Low = Close - 2: a zigzag of falling
\* peaks at 0, 12, 24 and rising troughs at 6, 18, six bars apart
ZigzagSeries ==
    LET closes == <<132, 125, 118, 111, 104, 97, 90, 95, 100, 105, 110, 115,
                    120, 117, 114, 111, 108, 105, 102, 104, 106, 108, 110,
                    112, 114, 113, 112, 111, 110, 109, 108>>
    IN  Bars([k \in 1..Len(closes) |->
                 <<closes[k] + 2, closes[k] - 2, closes[k]>>])

TriangleSamples ==
    {AscendingSeries, DescendingSeries, SymmetricSeries, SteepSeries}

\* a zigzag with an extremum every second bar, Close = Low.  With peaks
\* first, the peaks ps are at 0, 4, 8 and the troughs ts at 2, 6, and the
\* tail falls; otherwise the troughs ts are at 0, 4, 8 and the peaks ps at
\* 2, 6, and the tail rises.  Between extrema High is 110 and Low 105.
Zigzag(peaks_first, ps, ts, tail) ==
    LET High(i) ==
            IF i > 8 THEN (IF peaks_first THEN 110 - (i - 8) ELSE 110 + (i - 8))
            ELSE IF i % 2 = 1 THEN 110
            ELSE IF peaks_first
                 THEN (IF i % 4 = 0 THEN ps[(i \div 4) + 1] ELSE 108)
                 ELSE (IF i % 4 = 2 THEN ps[(i \div 4) + 1] ELSE 108)
        Low(i) ==
            IF i > 8 THEN (IF peaks_first THEN 105 - (i - 8) ELSE 105 + (i - 8))
            ELSE IF i % 2 = 1 THEN 105
            ELSE IF peaks_first
                 THEN (IF i % 4 = 2 THEN ts[(i \div 4) + 1] ELSE 106)
                 ELSE (IF i % 4 = 0 THEN ts[(i \div 4) + 1] ELSE 106)
    IN  [i \in 0..(8 + tail) |-> [High |-> High(i), Low |-> Low(i), Close |-> Low(i)]]

ZigzagFamily ==
    {Zigzag(TRUE, ps, ts, tail) :
        ps \in [1..3 -> PeakLevels], ts \in [1..2 -> TroughLevels],
        tail \in TailLengths}
    \cup
    {Zigzag(FALSE, ps, ts, tail) :
        ps \in [1..2 -> PeakLevels], ts \in [1..3 -> TroughLevels],
        tail \in TailLengths}

----------------------------------------------------------------------------
(* Sequential calls *)

Detectors ==
    {"detect_double_bottom", "detect_double_top", "detect_head_and_shoulders",
     "detect_inverse_head_and_shoulders", "detect_triangle",
     "find_support_resistance"}

NoCall == [fn |-> "none", out |-> <<>>]

\* the two script threads that call record_trade at the same time
Threads == {"t1", "t2"}

NoError == [kind |-> "None", at |-> 0]

NoOutcome == [kind |-> "none", value |-> "", error |-> NoError]

\* no wrapped call running: safe_db_operation(max_retries=3, initial_delay=1)
NoRetry ==
    [max_retries |-> 3, initial_delay |-> 1, attempt |-> 0, delay |-> 1,
     last_error |-> NoError, pc |-> "idle", invoked |-> <<>>, slept |-> <<>>,
     outcome |-> NoOutcome]

NoCallOfTrade == [user_id |-> "", symbol |-> "", quantity |-> 0, price |-> 0]

NoPosition == [at |-> 0, quantity |-> 0, average_price |-> <<0, 1>>]

NoResult == [success |-> FALSE, message |-> "none", own |-> 0, new_balance |-> 0]

NoSession ==
    [pc |-> "idle", call |-> NoCallOfTrade, balance |-> 0,
     position |-> NoPosition, result |-> NoResult]

\* the users get_user has created and their tables: balance = 10000.0
NoTrades ==
    [users |-> {"default_user"}, balance |-> [u \in {"default_user"} |-> 10000],
     positions |-> <<>>, trades |-> <<>>, lock |-> "none"]

NoLedger == [initial |-> 10000, bought |-> 0, sold |-> 0]

\* no database call made
NoDatabase ==
    /\ retry = NoRetry
    /\ bank = NoTrades
    /\ sess = [t \in Threads |-> NoSession]
    /\ ledger = NoLedger
    /\ trade_result = NoResult

\* no detector called yet, nothing saved, no exception caught
NotCalled == [called |-> FALSE, out |-> <<>>]

NoAnalysis ==
    /\ first = [of |-> [t \in Detectors |-> NotCalled], repeat |-> FALSE]
    /\ store = <<>>
    /\ error = "none"

NoThreads ==
    /\ pc = [t \in Detectors |-> "idle"]
    /\ extrema = [t \in Detectors |-> <<>>]
    /\ returned = [t \in Detectors |-> <<>>]

InitWith(series, windows) ==
    /\ data \in series
    /\ sensitivity \in Sensitivities
    /\ window \in windows
    /\ last = NoCall
    /\ NoThreads
    /\ NoAnalysis
    /\ NoDatabase

\* the frame after  lows = data['Low'].values; lows.sort() : the Low column
\* sorted in place through the view
LowSortedInPlace(d) ==
    LET lows == Column(d, "Low")
        Below(v) == Cardinality({k \in DOMAIN d : lows[k] < v})
        UpTo(v) == Cardinality({k \in DOMAIN d : lows[k] <= v})
        At(i) == CHOOSE v \in {lows[k] : k \in DOMAIN d} : Below(v) <= i /\ i < UpTo(v)
    IN  [i \in DOMAIN d |-> [d[i] EXCEPT !.Low = At(i)]]

\* a call reads its arguments and returns; it writes nothing else
CallDoubleBottom ==
    /\ last' = [fn |-> "detect_double_bottom",
                out |-> detect_double_bottom(data, sensitivity, window)]
    /\ UNCHANGED <<dbvars, data, sensitivity, window, pc, extrema, returned,
                 first, store, error>>

CallDoubleTop ==
    /\ last' = [fn |-> "detect_double_top",
                out |-> detect_double_top(data, sensitivity, window)]
    /\ UNCHANGED <<dbvars, data, sensitivity, window, pc, extrema, returned,
                 first, store, error>>

CallHeadAndShoulders ==
    /\ last' = [fn |-> "detect_head_and_shoulders",
                out |-> detect_head_and_shoulders(data, sensitivity, window)]
    /\ UNCHANGED <<dbvars, data, sensitivity, window, pc, extrema, returned,
                 first, store, error>>

CallInverseHeadAndShoulders ==
    /\ last' = [fn |-> "detect_inverse_head_and_shoulders",
                out |-> detect_inverse_head_and_shoulders(data, sensitivity, window)]
    /\ UNCHANGED <<dbvars, data, sensitivity, window, pc, extrema, returned,
                 first, store, error>>

CallTriangle ==
    /\ last' = [fn |-> "detect_triangle",
                out |-> detect_triangle(data, sensitivity, window)]
    /\ UNCHANGED <<dbvars, data, sensitivity, window, pc, extrema, returned,
                 first, store, error>>

\* find_support_resistance sorting the Low column of its argument in place
CallSupportResistanceInPlace ==
    /\ last' = [fn |-> "find_support_resistance",
                out |-> find_support_resistance(data, sensitivity, window)]
    /\ data' = LowSortedInPlace(data)
    /\ UNCHANGED <<dbvars, sensitivity, window, pc, extrema, returned,
                 first, store, error>>

CallSupportResistance ==
    /\ last' = [fn |-> "find_support_resistance",
                out |-> find_support_resistance(data, sensitivity, window)]
    /\ UNCHANGED <<dbvars, data, sensitivity, window, pc, extrema, returned,
                 first, store, error>>

\* find_support_resistance alone
InitLevels == InitWith(SeriesUpTo(MaxLen) \cup SampleSeries, Windows)

NextLevels == CallSupportResistance

SpecLevels == InitLevels /\ [][NextLevels]_vars

\* all six detectors, in any order, any number of times
Init == InitWith(SeriesUpTo(MaxLen), Windows)

Next ==
    \/ CallDoubleBottom
    \/ CallDoubleTop
    \/ CallHeadAndShoulders
    \/ CallInverseHeadAndShoulders
    \/ CallTriangle
    \/ CallSupportResistance

Spec == Init /\ [][Next]_vars

\* the double bottom / double top detectors on longer series
InitDouble ==
    InitWith(SeriesUpTo(MaxLenDouble) \cup SampleSeries \cup DoubleSamples,
             Windows)

NextDouble == CallDoubleBottom \/ CallDoubleTop

SpecDouble == InitDouble /\ [][NextDouble]_vars

\* the head-and-shoulders detectors on longer series
InitHS == InitWith(SeriesUpTo(MaxLenHS) \cup {HSWideSeries}, HSWindows)

NextHS == CallHeadAndShoulders \/ CallInverseHeadAndShoulders

SpecHS == InitHS /\ [][NextHS]_vars

\* constant-price series: every bar Open = High = Low = Close = p
FlatSeries ==
    UNION {[0..(n - 1) -> {PointBar(p)}] : n \in 0..MaxLenFlat, p \in PriceLevels}

InitFlat == InitWith(FlatSeries, Windows)

SpecFlat == InitFlat /\ [][Next]_vars

\* the sensitivity mapping over every window, on an empty frame
InitParams == InitWith(SeriesUpTo(0), 1..MaxWindow)

SpecParams == InitParams /\ [][Next]_vars

\* detect_triangle on series that hold triangles
InitTriangle ==
    InitWith(TriangleSamples \cup SampleSeries \cup ZigzagFamily, Windows)

NextTriangle == CallTriangle

SpecTriangle == InitTriangle /\ [][NextTriangle]_vars

----------------------------------------------------------------------------
(* Concurrent calls: one thread per detector over the same frame.  A thread
   first computes its extrema (the argrelextrema lines), then runs its
   matching loops and returns. *)

NoExtrema == [max_idx |-> <<>>, min_idx |-> <<>>]

\* the local max_idx / min_idx a detector computes
ExtremaOf(t, d, w) ==
    LET order == CASE t \in {"detect_double_bottom", "detect_double_top"} -> DoubleOrder(w)
                   [] t \in {"detect_head_and_shoulders",
                             "detect_inverse_head_and_shoulders"} -> HSOrder(w)
                   [] t = "detect_triangle" -> TriangleOrder(w)
                   [] OTHER -> SROrder(w)
        peaks == argrelextrema(Column(d, "High"), "greater_equal", order)
        troughs == argrelextrema(Column(d, "Low"), "less_equal", order)
    IN  CASE t \in {"detect_double_bottom", "detect_inverse_head_and_shoulders"} ->
                [max_idx |-> <<>>, min_idx |-> troughs]
          [] t \in {"detect_double_top", "detect_head_and_shoulders"} ->
                [max_idx |-> peaks, min_idx |-> <<>>]
          [] OTHER -> [max_idx |-> peaks, min_idx |-> troughs]

\* the rest of the detector, from its local extrema
MatchOf(t, d, s, w, e) ==
    CASE t = "detect_double_bottom" -> DoubleBottomMatch(d, s, w, e.min_idx)
      [] t = "detect_double_top" -> DoubleTopMatch(d, s, w, e.max_idx)
      [] t = "detect_head_and_shoulders" -> HeadAndShouldersMatch(d, s, w, e.max_idx)
      [] t = "detect_inverse_head_and_shoulders" ->
            InverseHeadAndShouldersMatch(d, s, w, e.min_idx)
      [] t = "detect_triangle" -> TriangleMatch(d, s, w, e.max_idx, e.min_idx)
      [] OTHER -> SupportResistanceMatch(d, s, e.max_idx, e.min_idx)

\* what a detector returns when it is called on its own
Alone(t, d, s, w) ==
    CASE t = "detect_double_bottom" -> detect_double_bottom(d, s, w)
      [] t = "detect_double_top" -> detect_double_top(d, s, w)
      [] t = "detect_head_and_shoulders" -> detect_head_and_shoulders(d, s, w)
      [] t = "detect_inverse_head_and_shoulders" ->
            detect_inverse_head_and_shoulders(d, s, w)
      [] t = "detect_triangle" -> detect_triangle(d, s, w)
      [] OTHER -> find_support_resistance(d, s, w)

\* a thread whose first step sorts the Low column of the shared frame in place
ThreadScanInPlace(t) ==
    /\ pc[t] = "start"
    /\ extrema' = [extrema EXCEPT ![t] = ExtremaOf(t, data, window)]
    /\ data' = LowSortedInPlace(data)
    /\ pc' = [pc EXCEPT ![t] = "scanned"]
    /\ UNCHANGED <<dbvars, sensitivity, window, last, returned, first, store, error>>

ThreadScan(t) ==
    /\ pc[t] = "start"
    /\ extrema' = [extrema EXCEPT ![t] = ExtremaOf(t, data, window)]
    /\ pc' = [pc EXCEPT ![t] = "scanned"]
    /\ UNCHANGED <<dbvars, data, sensitivity, window, last, returned, first, store, error>>

ThreadMatch(t) ==
    /\ pc[t] = "scanned"
    /\ returned' = [returned EXCEPT
                       ![t] = MatchOf(t, data, sensitivity, window, extrema[t])]
    /\ pc' = [pc EXCEPT ![t] = "done"]
    /\ UNCHANGED <<dbvars, data, sensitivity, window, last, extrema, first, store, error>>

InitPar ==
    /\ data \in SampleSeries
    /\ sensitivity \in Sensitivities
    /\ window \in Windows
    /\ last = NoCall
    /\ pc = [t \in Detectors |-> "start"]
    /\ extrema = [t \in Detectors |-> NoExtrema]
    /\ returned = [t \in Detectors |-> <<>>]
    /\ NoAnalysis
    /\ NoDatabase

NextPar == \E t \in Detectors : ThreadScan(t) \/ ThreadMatch(t)

SpecPar == InitPar /\ [][NextPar]_vars

\* sensitivity: int = 5
DefaultSensitivity == 5

\* the extrema every detector computes, over every short series
InitScan ==
    /\ data \in SeriesUpTo(MaxLen) \cup SampleSeries
    /\ sensitivity = DefaultSensitivity
    /\ window \in Windows
    /\ last = NoCall
    /\ pc = [t \in Detectors |-> "start"]
    /\ extrema = [t \in Detectors |-> NoExtrema]
    /\ returned = [t \in Detectors |-> <<>>]
    /\ NoAnalysis
    /\ NoDatabase

NextScan == \E t \in Detectors : ThreadScan(t)

SpecScan == InitScan /\ [][NextScan]_vars

----------------------------------------------------------------------------
(* Repeated calls: app.py runs again on every interaction and calls the
   detectors again on the frame kept in st.session_state.  first.of keeps
   what each detector returned when it was first called, first.repeat says
   whether the latest call was of a detector called before. *)

\* a call that also sorts the Low column of its argument in place
CallAgainInPlace(t) ==
    /\ last' = [fn |-> t, out |-> Alone(t, data, sensitivity, window)]
    /\ first' = [of |-> IF first.of[t].called THEN first.of
                        ELSE [first.of EXCEPT ![t] = [called |-> TRUE,
                                                      out |-> last'.out]],
                 repeat |-> first.of[t].called]
    /\ data' = LowSortedInPlace(data)
    /\ UNCHANGED <<dbvars, sensitivity, window, pc, extrema, returned, store, error>>

CallAgain(t) ==
    /\ last' = [fn |-> t, out |-> Alone(t, data, sensitivity, window)]
    /\ first' = [of |-> IF first.of[t].called THEN first.of
                        ELSE [first.of EXCEPT ![t] = [called |-> TRUE,
                                                      out |-> last'.out]],
                 repeat |-> first.of[t].called]
    /\ UNCHANGED <<dbvars, data, sensitivity, window, pc, extrema, returned, store,
                   error>>

InitRepeat == InitWith(SampleSeries, Windows)

NextRepeat == \E t \in Detectors : CallAgain(t)

SpecRepeat == InitRepeat /\ [][NextRepeat]_vars

----------------------------------------------------------------------------
(* The analysis block of app.py: each detector's result is put into
   patterns, and its most recent matches are written to the database with
   save_pattern_detection.  A failed write is logged and the loop goes on;
   any other exception leaves the block and is shown by st.error. *)

IndexDetectors ==
    {"detect_double_bottom", "detect_double_top", "detect_head_and_shoulders",
     "detect_inverse_head_and_shoulders"}

\* pattern_type of the rows of an index-list detector
PatternType(t) ==
    CASE t = "detect_double_bottom" -> "Double Bottom"
      [] t = "detect_double_top" -> "Double Top"
      [] t = "detect_head_and_shoulders" -> "Head and Shoulders"
      [] OTHER -> "Inverse Head and Shoulders"

\* app.py passes no window: each detector runs with its default
DefaultWindow(t) ==
    CASE t \in {"detect_double_bottom", "detect_double_top"} -> 20
      [] t = "detect_triangle" -> 40
      [] OTHER -> 30

\* found[-3:]
RecentThree(found) == SubSeq(found, Max2(1, Len(found) - 2), Len(found))

\* the rows whose write succeeded
Written(rows, ok) ==
    LET Kept(k) == ok[k]
        kept == SelectSeq([k \in 1..Len(rows) |-> k], Kept)
    IN  [j \in 1..Len(kept) |-> rows[kept[j]]]

\* patterns[...] = detector(data, sensitivity); for idx in patterns[...][-3:]:
\* price = Close.iloc[idx[-1]]; save_pattern_detection(...)
SavePatterns(t) ==
    LET found == Alone(t, data, sensitivity, DefaultWindow(t))
        recent == RecentThree(found)
        rows == [k \in 1..Len(recent) |->
                    [pattern_type |-> PatternType(t),
                     price |-> data[recent[k][Len(recent[k])]].Close]]
    IN  /\ Len(store) + Len(rows) <= MaxStore
        /\ last' = [fn |-> t, out |-> found]
        /\ \E ok \in [1..Len(rows) -> BOOLEAN] :
              store' = store \o Written(rows, ok)
        /\ error' = "none"
        /\ UNCHANGED <<dbvars, data, sensitivity, window, pc, extrema, returned, first>>

\* patterns['triangles'] = detect_triangle(data, sensitivity); for triangle
\* in patterns['triangles'][-3:]: price = Close.iloc[triangle['end_idx']];
\* triangle.get('type', 'Triangle'); save_pattern_detection(...).  Reading a
\* key the dictionary does not hold raises KeyError before anything is saved
SaveTriangles ==
    LET found == detect_triangle(data, sensitivity,
                                 DefaultWindow("detect_triangle"))
        recent == RecentThree(found)
    IN  /\ Len(store) + Len(recent) <= MaxStore
        /\ last' = [fn |-> "detect_triangle", out |-> found]
        /\ IF found = <<>>
           THEN store' = store /\ error' = "none"
           ELSE IF "end_idx" \notin DOMAIN recent[1]
           THEN store' = store /\ error' = "KeyError"
           ELSE /\ \E ok \in [1..Len(recent) -> BOOLEAN] :
                      store' = store \o Written(
                          [k \in 1..Len(recent) |->
                              [pattern_type |-> recent[k].type,
                               price |-> data[recent[k].end_idx].Close]], ok)
                /\ error' = "none"
        /\ UNCHANGED <<dbvars, data, sensitivity, window, pc, extrema, returned, first>>

InitSave ==
    InitWith(TriangleSamples \cup SampleSeries \cup {ZigzagSeries}, Windows)

NextSave == (\E t \in IndexDetectors : SavePatterns(t)) \/ SaveTriangles

SpecSave == InitSave /\ [][NextSave]_vars

----------------------------------------------------------------------------
(* database.py: safe_db_operation.  retry is the state of one call of a
   wrapped function: the loop variables attempt, delay and last_error, and
   as history what each invocation of the function did (invoked) and the
   waits made (slept). *)

\* no detector is running while the database functions are looked at
NoDetection ==
    /\ data \in SeriesUpTo(0)
    /\ sensitivity = DefaultSensitivity
    /\ window = DefaultWindow("detect_double_bottom")
    /\ last = NoCall
    /\ NoThreads
    /\ NoAnalysis

\* largest max_retries and initial_delay a decorator is given
MaxRetries == 4

MaxDelay == 3

\* what the wrapped function returns when it succeeds
ReturnValues == {"rows", "none"}

\* the wrapper up to its loop: delay = initial_delay; last_error = None
StartRetry(max_retries, initial_delay) ==
    [max_retries |-> max_retries, initial_delay |-> initial_delay,
     attempt |-> 0, delay |-> initial_delay, last_error |-> NoError,
     pc |-> "trying", invoked |-> <<>>, slept |-> <<>>, outcome |-> NoOutcome]

\* return func(*args, **kwargs): the function returns
AttemptReturns ==
    /\ retry.pc = "trying"
    /\ \E v \in ReturnValues :
          retry' = [retry EXCEPT
                       !.invoked = Append(@, "returns"),
                       !.outcome = [kind |-> "returned", value |-> v,
                                    error |-> NoError],
                       !.pc = "done"]
    /\ UNCHANGED <<detvars, bank, sess, ledger, trade_result>>

\* except exc.OperationalError: remember the error; wait if an attempt is left
AttemptOperationalError ==
    /\ retry.pc = "trying"
    /\ retry' = [retry EXCEPT
                    !.invoked = Append(@, "OperationalError"),
                    !.last_error = [kind |-> "OperationalError",
                                    at |-> retry.attempt + 1],
                    !.pc = IF retry.attempt < retry.max_retries - 1
                           THEN "sleeping" ELSE "exhausted"]
    /\ UNCHANGED <<detvars, bank, sess, ledger, trade_result>>

\* except Exception: raise
AttemptOtherError ==
    /\ retry.pc = "trying"
    /\ retry' = [retry EXCEPT
                    !.invoked = Append(@, "Exception"),
                    !.outcome = [kind |-> "raised", value |-> "",
                                 error |-> [kind |-> "Exception",
                                            at |-> retry.attempt + 1]],
                    !.pc = "done"]
    /\ UNCHANGED <<detvars, bank, sess, ledger, trade_result>>

\* a wait that does not double the delay
BackoffWithoutDoubling ==
    /\ retry.pc = "sleeping"
    /\ retry' = [retry EXCEPT
                    !.slept = Append(@, retry.delay),
                    !.attempt = @ + 1,
                    !.pc = "trying"]
    /\ UNCHANGED <<detvars, bank, sess, ledger, trade_result>>

\* time.sleep(delay); delay *= 2; and the loop goes to its next attempt
Backoff ==
    /\ retry.pc = "sleeping"
    /\ retry' = [retry EXCEPT
                    !.slept = Append(@, retry.delay),
                    !.delay = @ * 2,
                    !.attempt = @ + 1,
                    !.pc = "trying"]
    /\ UNCHANGED <<detvars, bank, sess, ledger, trade_result>>

\* the loop is over: raise last_error
RaiseLastError ==
    /\ retry.pc = "exhausted"
    /\ retry' = [retry EXCEPT
                    !.outcome = [kind |-> "raised", value |-> "",
                                 error |-> retry.last_error],
                    !.pc = "done"]
    /\ UNCHANGED <<detvars, bank, sess, ledger, trade_result>>

InitRetry ==
    /\ NoDetection
    /\ \E max_retries \in 1..MaxRetries : \E initial_delay \in 1..MaxDelay :
          retry = StartRetry(max_retries, initial_delay)
    /\ bank = NoTrades
    /\ sess = [t \in Threads |-> NoSession]
    /\ ledger = NoLedger
    /\ trade_result = NoResult

NextRetry ==
    \/ AttemptReturns
    \/ AttemptOperationalError
    \/ AttemptOtherError
    \/ Backoff
    \/ RaiseLastError

SpecRetry == InitRetry /\ [][NextRetry]_vars

----------------------------------------------------------------------------
(* database.py: record_trade.  bank is the database: the users, their
   balance, the rows of positions and of trades, and the session holding the
   row lock of an uncommitted UPDATE of users.  Amounts are integers;
   average_price is the exact fraction <<numerator, denominator>>. *)

UserIds == {"default_user", "nobody"}

Symbols == {"AAA", "BBB"}

TradeActions == {"Buy", "Sell"}

MaxQuantity == 2

Prices == {50, 100}

InitialBalances == {0, 150, 300}

\* most rows in the trade history
MaxTrades == 3

\* total_value = quantity * price
TotalValue(quantity, price) == quantity * price

\* session.query(Position).filter_by(user_id=user_id, symbol=symbol).first():
\* the place of the row in positions, 0 for None
FirstPosition(positions, user_id, symbol) ==
    LET Matching == {k \in 1..Len(positions) :
                        /\ positions[k].user_id = user_id
                        /\ positions[k].symbol = symbol}
    IN  IF Matching = {} THEN 0 ELSE SetMin(Matching)

\* a balance check that lets every Buy through
InsufficientFundsNever(balance, total_value) == FALSE

\* user.balance < total_value
InsufficientFunds(balance, total_value) == balance < total_value

\* position.quantity < quantity
InsufficientShares(held, quantity) == held < quantity

\* a Sell that always keeps the row
KeepsPositionAlways(new_quantity) == TRUE

\* if new_quantity > 0: the row is kept, else deleted
KeepsPosition(new_quantity) == new_quantity > 0

\* a refusal that still adds a row to the trade history
RefuseRecording(b, message, own) ==
    [bank |-> [b EXCEPT !.trades = Append(@, [user_id |-> "", symbol |-> "",
                                              action |-> message, quantity |-> 0,
                                              price |-> 0, total_value |-> 0])],
     result |-> [success |-> FALSE, message |-> message, own |-> own,
                 new_balance |-> 0]]

\* session.close(); return {"success": False, "message": ...}
Refuse(b, message, own) ==
    [bank |-> b,
     result |-> [success |-> FALSE, message |-> message, own |-> own,
                 new_balance |-> 0]]

\* the Trade row added at the end
TradeRow(user_id, symbol, action, quantity, price) ==
    [user_id |-> user_id, symbol |-> symbol, action |-> action,
     quantity |-> quantity, price |-> price,
     total_value |-> TotalValue(quantity, price)]

\* the positions after the Buy branch, k the place of the row read (0: none)
PositionsAfterBuy(positions, k, user_id, symbol, quantity, price) ==
    IF k # 0
    THEN LET position == positions[k]
             new_quantity == position.quantity + quantity
             \* new_value = position.quantity * position.average_price + total_value
             new_value == <<position.quantity * position.average_price[1]
                              + TotalValue(quantity, price) * position.average_price[2],
                            position.average_price[2]>>
             \* new_price = new_value / new_quantity
             new_price == <<new_value[1], new_value[2] * new_quantity>>
         IN  [positions EXCEPT ![k] = [@ EXCEPT !.quantity = new_quantity,
                                                !.average_price = new_price]]
    ELSE Append(positions, [user_id |-> user_id, symbol |-> symbol,
                            quantity |-> quantity, average_price |-> <<price, 1>>])

\* the positions after the Sell branch, k the place of the row sold from
PositionsAfterSell(positions, k, quantity) ==
    LET new_quantity == positions[k].quantity - quantity
    IN  IF KeepsPosition(new_quantity)
        THEN [positions EXCEPT ![k] = [@ EXCEPT !.quantity = new_quantity]]
        ELSE SubSeq(positions, 1, k - 1) \o SubSeq(positions, k + 1, Len(positions))

\* session.add(trade); session.commit(); return {"success": True, ...}
Accept(b, user_id, symbol, action, quantity, price, new_balance, positions) ==
    [bank |-> [b EXCEPT !.balance[user_id] = new_balance,
                        !.positions = positions,
                        !.trades = Append(@, TradeRow(user_id, symbol, action,
                                                      quantity, price))],
     result |-> [success |-> TRUE, message |-> "Successfully", own |-> 0,
                 new_balance |-> new_balance]]

\* a whole call on the database b, run alone: the database it leaves and
\* the dictionary it returns
record_trade(b, user_id, symbol, action, quantity, price) ==
    LET total_value == TotalValue(quantity, price)
        k == FirstPosition(b.positions, user_id, symbol)
        held == IF k = 0 THEN 0 ELSE b.positions[k].quantity
    IN  IF user_id \notin b.users THEN Refuse(b, "User not found", 0)
        ELSE IF action = "Buy"
        THEN IF InsufficientFunds(b.balance[user_id], total_value)
             THEN Refuse(b, "Insufficient funds", 0)
             ELSE Accept(b, user_id, symbol, action, quantity, price,
                         b.balance[user_id] - total_value,
                         PositionsAfterBuy(b.positions, k, user_id, symbol,
                                           quantity, price))
        ELSE IF k = 0 \/ InsufficientShares(held, quantity)
             THEN Refuse(b, "Insufficient shares", held)
             ELSE Accept(b, user_id, symbol, action, quantity, price,
                         b.balance[user_id] + total_value,
                         PositionsAfterSell(b.positions, k, quantity))

\* one call from the trade form; the ledger adds up what the calls that
\* reported success were worth
CallRecordTrade ==
    /\ Len(bank.trades) < MaxTrades
    /\ \E user_id \in UserIds : \E symbol \in Symbols : \E action \in TradeActions :
       \E quantity \in 1..MaxQuantity : \E price \in Prices :
          LET r == record_trade(bank, user_id, symbol, action, quantity, price)
          IN  /\ bank' = r.bank
              /\ trade_result' = r.result
              /\ ledger' =
                    IF ~r.result.success THEN ledger
                    ELSE IF action = "Buy"
                    THEN [ledger EXCEPT !.bought = @ + TotalValue(quantity, price)]
                    ELSE [ledger EXCEPT !.sold = @ + TotalValue(quantity, price)]
    /\ UNCHANGED <<detvars, retry, sess>>

\* a user get_user has created, with some balance and no trade yet
FreshBank(balance) == [NoTrades EXCEPT !.balance["default_user"] = balance]

InitTrade ==
    /\ NoDetection
    /\ retry = NoRetry
    /\ \E balance \in InitialBalances :
          /\ bank = FreshBank(balance)
          /\ ledger = [initial |-> balance, bought |-> 0, sold |-> 0]
    /\ sess = [t \in Threads |-> NoSession]
    /\ trade_result = NoResult

NextTrade == CallRecordTrade

SpecTrade == InitTrade /\ [][NextTrade]_vars

----------------------------------------------------------------------------
(* Two Buy calls at the same time, each in the session of its own thread
   (Session is a scoped_session).  A session reads what is committed; the
   UPDATE of users it flushes before its query of positions holds the row
   until it commits, and a second UPDATE of the row waits for that. *)

\* session = get_session(); user = session.query(User)...first()
ReadUser(t) ==
    /\ sess[t].pc = "start"
    /\ sess' = [sess EXCEPT ![t] =
                  IF sess[t].call.user_id \notin bank.users
                  THEN [@ EXCEPT !.pc = "done",
                                 !.result = Refuse(bank, "User not found", 0).result]
                  ELSE [@ EXCEPT !.pc = "read",
                                 !.balance = bank.balance[sess[t].call.user_id]]]
    /\ UNCHANGED <<detvars, retry, bank, ledger, trade_result>>

\* if user.balance < total_value: return ...; user.balance -= total_value
CheckFunds(t) ==
    LET total_value == TotalValue(sess[t].call.quantity, sess[t].call.price)
    IN  /\ sess[t].pc = "read"
        /\ sess' = [sess EXCEPT ![t] =
                      IF InsufficientFunds(sess[t].balance, total_value)
                      THEN [@ EXCEPT !.pc = "done",
                                     !.result = Refuse(bank, "Insufficient funds", 0).result]
                      ELSE [@ EXCEPT !.pc = "debited",
                                     !.balance = @ - total_value]]
        /\ UNCHANGED <<detvars, retry, bank, ledger, trade_result>>

\* position = session.query(Position)...first(): the session first flushes
\* UPDATE users SET balance = <the value it computed>, then reads the row
FlushAndReadPosition(t) ==
    LET k == FirstPosition(bank.positions, sess[t].call.user_id, sess[t].call.symbol)
    IN  /\ sess[t].pc = "debited"
        /\ bank.lock = "none"
        /\ bank' = [bank EXCEPT !.lock = t]
        /\ sess' = [sess EXCEPT ![t] =
                      [@ EXCEPT !.pc = "flushed",
                                !.position =
                                    IF k = 0 THEN NoPosition
                                    ELSE [at |-> k,
                                          quantity |-> bank.positions[k].quantity,
                                          average_price |->
                                              bank.positions[k].average_price]]]
        /\ UNCHANGED <<detvars, retry, ledger, trade_result>>

\* the position is updated or added, the trade added, session.commit()
CommitTrade(t) ==
    LET call == sess[t].call
        r == Accept(bank, call.user_id, call.symbol, "Buy", call.quantity,
                    call.price, sess[t].balance,
                    PositionsAfterBuy(bank.positions, sess[t].position.at,
                                      call.user_id, call.symbol, call.quantity,
                                      call.price))
    IN  /\ sess[t].pc = "flushed"
        /\ bank' = [r.bank EXCEPT !.lock = "none"]
        /\ sess' = [sess EXCEPT ![t] = [@ EXCEPT !.pc = "done",
                                                 !.result = r.result]]
        /\ UNCHANGED <<detvars, retry, ledger, trade_result>>

InitBuys ==
    /\ NoDetection
    /\ retry = NoRetry
    /\ \E balance \in InitialBalances :
          /\ bank = FreshBank(balance)
          /\ ledger = [initial |-> balance, bought |-> 0, sold |-> 0]
    /\ sess \in [Threads ->
                    {[NoSession EXCEPT !.pc = "start",
                                       !.call = [user_id |-> "default_user",
                                                 symbol |-> symbol,
                                                 quantity |-> quantity,
                                                 price |-> price]] :
                        symbol \in Symbols, quantity \in 1..MaxQuantity,
                        price \in Prices}]
    /\ trade_result = NoResult

NextBuys ==
    \E t \in Threads :
        \/ ReadUser(t)
        \/ CheckFunds(t)
        \/ FlushAndReadPosition(t)
        \/ CommitTrade(t)

SpecBuys == InitBuys /\ [][NextBuys]_vars

----------------------------------------------------------------------------
(* Properties *)

InSeq(x, seq) == \E k \in 1..Len(seq) : seq[k] = x

Called(fn) == last.fn = fn

\* C1: on the 22-bar example series, detect_double_bottom with sensitivity 5
\* and window 20 returns exactly one match, the pair [5, 17].
C1_ExampleDoubleBottom ==
    (/\ data = ExampleSeries
     /\ sensitivity = 5
     /\ window = 20
     /\ Called("detect_double_bottom"))
    => last.out = <<<<5, 17>>>>

C1_Witness ==
    /\ data = ExampleSeries
    /\ sensitivity = 5
    /\ window = 20
    /\ Called("detect_double_bottom")
    /\ Len(last.out) = 1

\* C2: every index list returned by the double bottom / double top /
\* head-and-shoulders / inverse head-and-shoulders detectors holds only
\* indices of the series and lists them in strictly ascending order.
C2_IndicesStrictlyAscending ==
    last.fn \in {"detect_double_bottom", "detect_double_top",
                 "detect_head_and_shoulders", "detect_inverse_head_and_shoulders"}
    => \A k \in 1..Len(last.out) :
          LET pat == last.out[k]
          IN  /\ \A m \in 1..Len(pat) : pat[m] \in 0..(Size(data) - 1)
              /\ \A m \in 1..(Len(pat) - 1) : pat[m] < pat[m + 1]

IsFlat(d) ==
    \E p \in PriceLevels : \A i \in DOMAIN d : d[i] = PointBar(p)

AllIndices(d) == [k \in 1..Size(d) |-> k - 1]

\* C3 as stated: on a constant-price series every detector returns no match,
\* find_support_resistance two empty sequences.
C3_FlatNoMatches ==
    (IsFlat(data) /\ last.fn \in Detectors)
    => IF Called("find_support_resistance")
       THEN last.out = <<<<>>, <<>>>>
       ELSE last.out = <<>>

\* C3 amended: on a constant-price series the five pattern detectors return
\* no match; find_support_resistance returns every index as support and as
\* resistance when the series has more than num_touches bars, and two empty
\* sequences otherwise.
C3_FlatAmended ==
    (IsFlat(data) /\ last.fn \in Detectors)
    => IF Called("find_support_resistance")
       THEN last.out = IF Size(data) - 1 >= NumTouches(sensitivity)
                       THEN <<AllIndices(data), AllIndices(data)>>
                       ELSE <<<<>>, <<>>>>
       ELSE last.out = <<>>

C3_Witness ==
    /\ IsFlat(data)
    /\ Called("find_support_resistance")
    /\ Size(data) = MaxLenFlat
    /\ Len(last.out[1]) = MaxLenFlat

\* C4: every pair detect_double_bottom returns at sensitivity s <= 9 is also
\* returned at sensitivity s + 1.
C4_HigherSensitivityKeepsMatches ==
    (Called("detect_double_bottom") /\ sensitivity <= 9)
    => \A k \in 1..Len(last.out) :
          InSeq(last.out[k], detect_double_bottom(data, sensitivity + 1, window))

\* C5: for every window and all sensitivities s < s', the tolerance and the
\* min_distance / min_duration each detector computes at s' are at most
\* those it computes at s.
C5_ParametersNonIncreasing ==
    \A s2 \in Sensitivities :
        s2 > sensitivity
        => /\ DoubleTolerance(s2) <= DoubleTolerance(sensitivity)
           /\ DoubleMinDistance(s2, window) <= DoubleMinDistance(sensitivity, window)
           /\ HSTolerance(s2) <= HSTolerance(sensitivity)
           /\ HSMinDistance(s2, window) <= HSMinDistance(sensitivity, window)
           /\ TriangleMinDuration(s2, window) <= TriangleMinDuration(sensitivity, window)

C5_Witness ==
    /\ Called("detect_double_bottom")
    /\ sensitivity = 5
    /\ window = 20
    /\ DoubleMinDistance(5, 20) = 8
    /\ DoubleMinDistance(6, 20) = 7
    /\ DoubleTolerance(6) < DoubleTolerance(5)

\* the mirror of a series about the constant c
Mirror(d, c) ==
    [i \in DOMAIN d |->
        [High |-> c - d[i].Low, Low |-> c - d[i].High, Close |-> c - d[i].Close]]

\* C6 as stated: a pair of detect_double_bottom(S, s) is a pair of
\* detect_double_top(M(S), s) and not one of detect_double_bottom(M(S), s).
C6_MirrorIsDoubleTop ==
    Called("detect_double_bottom")
    => \A c \in MirrorConstants : \A k \in 1..Len(last.out) :
          /\ InSeq(last.out[k], detect_double_top(Mirror(data, c), sensitivity, window))
          /\ ~InSeq(last.out[k],
                    detect_double_bottom(Mirror(data, c), sensitivity, window))

\* the relative tests of the double top on the mirrored prices of the troughs
\* i and j, written on the prices of the original series
MirroredRelativeTests(d, c, s, i, j) ==
    LET max_between == SetMax({d[k].Close : k \in i..(j - 1)})
    IN  /\ Abs(d[i].Low - d[j].Low) * 100 <= DoubleTolerance(s) * (c - d[i].Low)
        /\ (max_between - d[i].Low) * 100 >= 2 * (c - d[i].Low)
        /\ (max_between - d[j].Low) * 100 >= 2 * (c - d[j].Low)

\* C6 amended: a pair [i, j] of detect_double_bottom(S, s) is a pair of
\* detect_double_top(M(S), s) exactly when the mirrored prices pass the
\* double top's relative tests: |Low[i] - Low[j]| / (C - Low[i]) <= tolerance
\* and (max Close of i..j-1 - Low[k]) / (C - Low[k]) >= 0.02 for k = i, j.
C6_MirrorAmended ==
    Called("detect_double_bottom")
    => \A c \in MirrorConstants : \A k \in 1..Len(last.out) :
          InSeq(last.out[k], detect_double_top(Mirror(data, c), sensitivity, window))
          <=> MirroredRelativeTests(data, c, sensitivity, last.out[k][1], last.out[k][2])

C6_Witness ==
    /\ Called("detect_double_bottom")
    /\ \E k \in 1..Len(last.out) :
          /\ InSeq(last.out[k], detect_double_top(Mirror(data, 140), sensitivity, window))
          /\ ~InSeq(last.out[k], detect_double_top(Mirror(data, 2000), sensitivity, window))

\* C7: a series with fewer than 3 x order bars gives an empty result (here
\* for the double patterns, order = max(int(window / 4), 1)).
C7_ShortSeriesEmpty ==
    (/\ last.fn \in {"detect_double_bottom", "detect_double_top"}
     /\ Size(data) < 3 * DoubleOrder(window))
    => last.out = <<>>

\* C8: for a fixed series and level index, the touch count under the price
\* threshold of a higher sensitivity (a smaller threshold) is never larger
\* than under the threshold of a lower one.
C8_TouchesMonotonic ==
    Called("find_support_resistance")
    => \A s2 \in Sensitivities : \A idx \in DOMAIN data :
          s2 > sensitivity
          => /\ Touches(Column(data, "Low"), idx, PriceThreshold(s2))
                <= Touches(Column(data, "Low"), idx, PriceThreshold(sensitivity))
             /\ Touches(Column(data, "High"), idx, PriceThreshold(s2))
                <= Touches(Column(data, "High"), idx, PriceThreshold(sensitivity))

C8_Witness ==
    /\ Called("find_support_resistance")
    /\ sensitivity <= 9
    /\ \E k \in 1..Len(last.out[1]) :
          Touches(Column(data, "Low"), last.out[1][k], PriceThreshold(sensitivity + 1))
          < Touches(Column(data, "Low"), last.out[1][k], PriceThreshold(sensitivity))

\* C9: no detector call changes the series (or the arguments) it was given.
C9_SeriesUnchanged ==
    [][data' = data /\ sensitivity' = sensitivity /\ window' = window]_vars

C9_Witness ==
    /\ Called("find_support_resistance")
    /\ Len(last.out[1]) > 0
    /\ Len(last.out[2]) > 0

\* C10: under every interleaving of the six detector threads, a thread that
\* has returned has returned what its detector returns when run alone.
C10_ConcurrentAsAlone ==
    \A t \in Detectors :
        pc[t] = "done" => returned[t] = Alone(t, data, sensitivity, window)

C10_Witness ==
    /\ \A t \in Detectors : pc[t] = "done"
    /\ data = ExampleSeries
    /\ returned["detect_double_bottom"] = <<<<5, 17>>>>

ConfirmingClose(d, idx) == d[ConfirmIdx(idx, Size(d))].Close

\* C12: every head-and-shoulders pattern emitted has its confirming close
\* strictly below the average of the two neckline trough Lows; every inverse
\* pattern has it strictly above the average of the two neckline peak Highs.
C12_ConfirmedAgainstNeckline ==
    /\ Called("detect_head_and_shoulders")
        => \A k \in 1..Len(last.out) :
              LET pat == last.out[k]
              IN  2 * ConfirmingClose(data, pat[5])
                      < data[pat[2]].Low + data[pat[4]].Low
    /\ Called("detect_inverse_head_and_shoulders")
        => \A k \in 1..Len(last.out) :
              LET pat == last.out[k]
              IN  2 * ConfirmingClose(data, pat[5])
                      > data[pat[2]].High + data[pat[4]].High

\* C17: every pair emitted by detect_double_bottom has a bar strictly between
\* idx1 and idx2 whose Close is at least 2% above both trough Lows; every
\* pair emitted by detect_double_top has a bar strictly between whose Close
\* is at least 2% below both top Highs.
C17_RiseStrictlyBetween ==
    /\ Called("detect_double_bottom")
        => \A k \in 1..Len(last.out) :
              LET idx1 == last.out[k][1]
                  idx2 == last.out[k][2]
              IN  \E b \in (idx1 + 1)..(idx2 - 1) :
                     /\ (data[b].Close - data[idx1].Low) * 100 >= 2 * data[idx1].Low
                     /\ (data[b].Close - data[idx2].Low) * 100 >= 2 * data[idx2].Low
    /\ Called("detect_double_top")
        => \A k \in 1..Len(last.out) :
              LET idx1 == last.out[k][1]
                  idx2 == last.out[k][2]
              IN  \E b \in (idx1 + 1)..(idx2 - 1) :
                     /\ (data[idx1].High - data[b].Close) * 100 >= 2 * data[idx1].High
                     /\ (data[idx2].High - data[b].Close) * 100 >= 2 * data[idx2].High

\* C18: every pair emitted by detect_double_bottom (detect_double_top) is at
\* least min_distance apart, has trough Lows (top Highs) within tolerance,
\* and its confirming close is strictly above the second trough's Low
\* (strictly below the second top's High).
C18_PairsPassTests ==
    /\ Called("detect_double_bottom")
        => \A k \in 1..Len(last.out) :
              LET idx1 == last.out[k][1]
                  idx2 == last.out[k][2]
                  p1 == data[idx1].Low
                  p2 == data[idx2].Low
              IN  /\ idx2 - idx1 >= DoubleMinDistance(sensitivity, window)
                  /\ Abs(p1 - p2) * 100 <= DoubleTolerance(sensitivity) * p1
                  /\ ConfirmingClose(data, idx2) > p2
    /\ Called("detect_double_top")
        => \A k \in 1..Len(last.out) :
              LET idx1 == last.out[k][1]
                  idx2 == last.out[k][2]
                  p1 == data[idx1].High
                  p2 == data[idx2].High
              IN  /\ idx2 - idx1 >= DoubleMinDistance(sensitivity, window)
                  /\ Abs(p1 - p2) * 100 <= DoubleTolerance(sensitivity) * p1
                  /\ ConfirmingClose(data, idx2) < p2

\* a pair confirmed by the close 5 bars after the second bottom
C18_Witness ==
    /\ Called("detect_double_bottom")
    /\ data = TripleBottomSeries
    /\ InSeq(<<0, 5>>, last.out)
    /\ ConfirmIdx(5, Size(data)) = 10

\* C19: detect_double_bottom considers every pair of trough extrema, adjacent
\* or not: a pair that passes the distance, tolerance, rise and confirmation
\* tests is emitted exactly once, a pair that fails is not emitted, and
\* nothing else is emitted.
C19_EveryQualifyingPairOnce ==
    Called("detect_double_bottom")
    => LET min_idx == argrelextrema(Column(data, "Low"), "less_equal",
                                    DoubleOrder(window))
           Times(pair) == Cardinality({k \in 1..Len(last.out) : last.out[k] = pair})
       IN  /\ \A i \in 1..Len(min_idx) : \A j \in (i + 1)..Len(min_idx) :
                  Times(<<min_idx[i], min_idx[j]>>)
                  = IF DoubleBottomTest(data, sensitivity, window,
                                        min_idx[i], min_idx[j])
                    THEN 1 ELSE 0
           /\ \A k \in 1..Len(last.out) :
                  \E i \in 1..Len(min_idx) : \E j \in (i + 1)..Len(min_idx) :
                     last.out[k] = <<min_idx[i], min_idx[j]>>

\* three mutually qualifying bottoms: all three pairs are returned
C19_Witness ==
    /\ Called("detect_double_bottom")
    /\ data = TripleBottomSeries
    /\ last.out = <<<<0, 5>>, <<0, 11>>, <<5, 11>>>>

\* C20: every pattern emitted by detect_head_and_shoulders is built from
\* three consecutive peak extrema whose adjacent spacings are both at least
\* min_distance, whose head is strictly higher than both shoulders, whose
\* shoulder Highs differ by at most tolerance, and whose neckline troughs,
\* the minimum Low in each gap between the peaks, differ by at most
\* tolerance.
C20_PatternPassesTests ==
    Called("detect_head_and_shoulders")
    => LET max_idx == argrelextrema(Column(data, "High"), "greater_equal",
                                    HSOrder(window))
           GapLow(lo, hi) == SetMin({data[b].Low : b \in (lo + 1)..(hi - 1)})
       IN  \A k \in 1..Len(last.out) :
              LET p1 == last.out[k][1]
                  p2 == last.out[k][3]
                  p3 == last.out[k][5]
                  t1 == GapLow(p1, p2)
                  t2 == GapLow(p2, p3)
              IN  /\ \E i \in 1..(Len(max_idx) - 2) :
                         /\ max_idx[i] = p1
                         /\ max_idx[i + 1] = p2
                         /\ max_idx[i + 2] = p3
                  /\ p2 - p1 >= HSMinDistance(sensitivity, window)
                  /\ p3 - p2 >= HSMinDistance(sensitivity, window)
                  /\ data[p2].High > data[p1].High
                  /\ data[p2].High > data[p3].High
                  /\ Abs(data[p1].High - data[p3].High) * 100
                         <= HSTolerance(sensitivity) * data[p1].High
                  /\ Abs(t1 - t2) * 100 <= HSTolerance(sensitivity) * t1

\* C13: a triangle whose last defining extremum is within 5 bars of the end
\* of the series has its breakout flag set by the same directional test on
\* the final close: above the resistance (the mean of the three peak Highs)
\* for an ascending triangle, below the support (the mean of the three
\* trough Lows) for a descending one.
C13_BreakoutFallsBackToFinalClose ==
    Called("detect_triangle")
    => \A k \in 1..Len(last.out) :
          LET tri == last.out[k]
              n == Size(data)
              final == data[n - 1].Close
          IN  ~(tri.points[5] + 5 < n)
              => /\ tri.type = "Ascending"
                    => (tri.breakout <=> 3 * final > tri.converge_y[1])
                 /\ tri.type = "Descending"
                    => (tri.breakout <=> 3 * final < tri.converge_y[1])

\* C14: every triangle returned has a points list of exactly 5 indices of
\* the series, listed in ascending order.
C14_TrianglePointsAscending ==
    Called("detect_triangle")
    => \A k \in 1..Len(last.out) :
          LET points == last.out[k].points
          IN  /\ Len(points) = 5
              /\ \A m \in 1..5 : points[m] \in 0..(Size(data) - 1)
              /\ \A m \in 1..4 : points[m] <= points[m + 1]

\* C15: no division of the symmetric branch has a zero denominator: for
\* every symmetric triangle reported the two index spans, the difference of
\* the slopes and, when the breakout ratio is computed, the extrapolated
\* trend-line price it divides by are not zero.
C15_NoZeroDenominator ==
    Called("detect_triangle")
    => \A k \in 1..Len(last.out) :
          LET tri == last.out[k]
              peak1_idx == tri.points[1]
              trough1_idx == tri.points[2]
              trough2_idx == tri.points[4]
              peak3_idx == tri.points[5]
              pa == data[peak3_idx].High - data[peak1_idx].High
              pb == peak3_idx - peak1_idx
              ta == data[trough2_idx].Low - data[trough1_idx].Low
              tb == trough2_idx - trough1_idx
              \* expected_price = peak1 + peak_slope * (peak3_idx + 5 - peak1_idx)
              expected_times_pb == data[peak1_idx].High * pb + pa * (pb + 5)
          IN  tri.type = "Symmetric"
              => /\ pb # 0
                 /\ tb # 0
                 /\ pa * tb - ta * pb # 0
                 /\ peak3_idx + 5 < Size(data) => expected_times_pb # 0

\* C16: every field the analysis block reads from a detector's output exists
\* in it: no call of the block ends in an exception, and the triangles
\* detect_triangle returns are saved.
C16_AggregatedWithoutError ==
    error = "none"

\* C21: every Symmetric triangle returned has peak3_idx <= converge_x <=
\* peak3_idx + window.
C21_ConvergenceWithinWindow ==
    Called("detect_triangle")
    => \A k \in 1..Len(last.out) :
          LET tri == last.out[k]
          IN  tri.type = "Symmetric"
              => /\ tri.points[5] <= tri.converge_x
                 /\ tri.converge_x <= tri.points[5] + window

\* a symmetric triangle that converges after its third peak
C21_Witness ==
    /\ Called("detect_triangle")
    /\ \E k \in 1..Len(last.out) :
          /\ last.out[k].type = "Symmetric"
          /\ last.out[k].converge_x > last.out[k].points[5]
          /\ last.out[k].converge_x < last.out[k].points[5] + window

\* C22: for every triangle returned, of any type, the span from the first to
\* the last index of its points list is at least min_duration.
C22_SpanAtLeastMinDuration ==
    Called("detect_triangle")
    => \A k \in 1..Len(last.out) :
          last.out[k].points[5] - last.out[k].points[1]
              >= TriangleMinDuration(sensitivity, window)

\* C27: the three peaks of a returned Symmetric triangle are never also the
\* three peaks of a returned Ascending triangle.
C27_NoTripleClassifiedTwice ==
    Called("detect_triangle")
    => \A k \in 1..Len(last.out) : \A m \in 1..Len(last.out) :
          (last.out[k].type = "Symmetric" /\ last.out[m].type = "Ascending")
          => <<last.out[k].points[1], last.out[k].points[3], last.out[k].points[5]>>
             # <<last.out[m].points[1], last.out[m].points[3], last.out[m].points[5]>>

\* the bars other than idx whose value lies within (strictly: less than;
\* otherwise: at most) the price threshold of sensitivity s, relative to the
\* value at idx
OtherBarsNear(vals, idx, s, strictly) ==
    {i \in DOMAIN vals :
        /\ i # idx
        /\ IF strictly
           THEN Abs(vals[i] - vals[idx]) * 100 < 2 * (11 - s) * vals[idx]
           ELSE Abs(vals[i] - vals[idx]) * 100 <= 2 * (11 - s) * vals[idx]}

\* the indices of out are exactly the extrema of vals (of the given kind)
\* with at least max(2, 6 - s div 2) other bars near
LevelsAre(out, vals, comparator, strictly) ==
    \A idx \in DOMAIN vals :
        InSeq(idx, out)
        <=> /\ InSeq(idx, argrelextrema(vals, comparator, SROrder(window)))
            /\ Cardinality(OtherBarsNear(vals, idx, sensitivity, strictly))
               >= Max2(2, 6 - (sensitivity \div 2))

\* C23: find_support_resistance returns a trough as support if and only if
\* at least max(2, 6 - s div 2) other bars have a Low within the price
\* threshold of the trough's Low, a distance equal to the threshold
\* included; resistance is the mirror over peaks and Highs.
C23_LevelsWithinOrAtThreshold ==
    Called("find_support_resistance")
    => /\ LevelsAre(last.out[1], Column(data, "Low"), "less_equal", FALSE)
       /\ LevelsAre(last.out[2], Column(data, "High"), "greater_equal", FALSE)

\* C23 amended: the same with the distance strictly below the threshold.
C23_LevelsStrictlyWithinThreshold ==
    Called("find_support_resistance")
    => /\ LevelsAre(last.out[1], Column(data, "Low"), "less_equal", TRUE)
       /\ LevelsAre(last.out[2], Column(data, "High"), "greater_equal", TRUE)

\* some support is returned, and a trough is not returned that has enough
\* other bars within or at the threshold but too few strictly within it
C23_Witness ==
    /\ Called("find_support_resistance")
    /\ Len(last.out[1]) > 0
    /\ \E idx \in DOMAIN data :
          /\ InSeq(idx, argrelextrema(Column(data, "Low"), "less_equal",
                                      SROrder(window)))
          /\ ~InSeq(idx, last.out[1])
          /\ Cardinality(OtherBarsNear(Column(data, "Low"), idx, sensitivity, FALSE))
             >= Max2(2, 6 - (sensitivity \div 2))

\* the order a detector passes to argrelextrema
OrderOf(t) ==
    CASE t \in {"detect_double_bottom", "detect_double_top"} -> Max2(window \div 4, 1)
      [] t \in {"detect_head_and_shoulders", "detect_inverse_head_and_shoulders"} ->
            Max2(window \div 6, 1)
      [] t = "detect_triangle" -> Max2(window \div 8, 1)
      [] OTHER -> Max2(window \div 5, 1)

\* the indices whose value is >= (peak) or <= (trough) every value in the
\* window of the given order around them, clamped to the series
ExtremaSet(vals, peak, order) ==
    {i \in DOMAIN vals :
        \A j \in Max2(0, i - order)..(IF i + order < Size(vals) - 1
                                      THEN i + order ELSE Size(vals) - 1) :
            IF peak THEN vals[i] >= vals[j] ELSE vals[i] <= vals[j]}

\* list holds exactly the elements of S, in ascending order
AscendingListOf(list, S) ==
    /\ {list[k] : k \in 1..Len(list)} = S
    /\ \A k \in 1..(Len(list) - 1) : list[k] < list[k + 1]

UsesPeaks(t) ==
    t \in {"detect_double_top", "detect_head_and_shoulders", "detect_triangle",
           "find_support_resistance"}

UsesTroughs(t) ==
    t \in {"detect_double_bottom", "detect_inverse_head_and_shoulders",
           "detect_triangle", "find_support_resistance"}

\* C24: the extrema a detector uses are exactly the indices whose value is
\* >= (peak) or <= (trough) every value at max(0, i-order)..min(n-1, i+order),
\* in ascending order; tied indices are all included and the first and the
\* last bar can qualify.
C24_ExtremaAreWindowExtremes ==
    \A t \in Detectors :
        pc[t] = "scanned"
        => /\ UsesPeaks(t)
              => AscendingListOf(extrema[t].max_idx,
                     ExtremaSet(Column(data, "High"), TRUE, OrderOf(t)))
           /\ UsesTroughs(t)
              => AscendingListOf(extrema[t].min_idx,
                     ExtremaSet(Column(data, "Low"), FALSE, OrderOf(t)))

\* a detector's troughs hold the first bar, the last bar and two tied
\* neighbours, and leave some bar out
C24_Witness ==
    \E t \in Detectors :
        /\ pc[t] = "scanned"
        /\ UsesTroughs(t)
        /\ Size(data) >= 4
        /\ InSeq(0, extrema[t].min_idx)
        /\ InSeq(Size(data) - 1, extrema[t].min_idx)
        /\ \E k \in 1..(Len(extrema[t].min_idx) - 1) :
              /\ extrema[t].min_idx[k + 1] = extrema[t].min_idx[k] + 1
              /\ data[extrema[t].min_idx[k]].Low = data[extrema[t].min_idx[k + 1]].Low
        /\ Len(extrema[t].min_idx) < Size(data)

\* C25: a wrapped function is invoked at most max_retries times, again only
\* after an OperationalError; another exception is raised right after the
\* attempt that raised it, the first value returned is returned, after
\* max_retries operational failures the last OperationalError is raised; the
\* wait before the k-th retry is initial_delay * 2^(k-1) and none follows
\* the final attempt.
C25_RetriesWithBackoff ==
    LET n == Len(retry.invoked)
        waits == Len(retry.slept)
    IN  retry.pc # "idle"
        => /\ n <= retry.max_retries
           /\ \A k \in 1..(n - 1) : retry.invoked[k] = "OperationalError"
           /\ \A k \in 1..waits : retry.slept[k] = retry.initial_delay * 2^(k - 1)
           /\ waits <= retry.max_retries - 1
           /\ waits = IF retry.pc = "trying" THEN n ELSE n - 1
           /\ retry.pc = "done"
              => CASE retry.invoked[n] = "returns" ->
                          retry.outcome.kind = "returned"
                   [] retry.invoked[n] = "Exception" ->
                          /\ retry.outcome.kind = "raised"
                          /\ retry.outcome.error = [kind |-> "Exception", at |-> n]
                   [] OTHER ->
                          /\ n = retry.max_retries
                          /\ retry.outcome.kind = "raised"
                          /\ retry.outcome.error =
                                [kind |-> "OperationalError", at |-> retry.max_retries]

\* three operational failures, two waits, and the third error raised
C25_Witness ==
    /\ retry.pc = "done"
    /\ retry.max_retries = 3
    /\ retry.outcome.error = [kind |-> "OperationalError", at |-> 3]
    /\ Len(retry.slept) = 2

\* C26: whenever record_trade returns success = False, the balance, every
\* position and the trade history are as before the call.
C26_RefusalChangesNothing ==
    [][~trade_result'.success => bank' = bank]_vars

\* each refusal has happened on a database that holds positions and trades
C26_Witness ==
    /\ ~trade_result.success
    /\ trade_result.message = "Insufficient shares"
    /\ trade_result.own > 0
    /\ Len(bank.trades) > 0

SpentBy(ts) ==
    LET Worth(t) == IF sess[t].result.success
                    THEN TotalValue(sess[t].call.quantity, sess[t].call.price)
                    ELSE 0
    IN  Worth("t1") + Worth("t2")

\* C29: when two concurrent Buys of one user have returned, the balance is
\* the initial balance minus the value of the trades that reported success,
\* and is not negative.
C29_ConcurrentBuysAreDebited ==
    (\A t \in Threads : sess[t].pc = "done")
    => /\ bank.balance["default_user"] = ledger.initial - SpentBy(Threads)
       /\ bank.balance["default_user"] >= 0

\* C30: every stored position has quantity > 0.
C30_PositionsArePositive ==
    \A k \in 1..Len(bank.positions) : bank.positions[k].quantity > 0

\* a Sell of the whole holding has deleted the row, another row is left
C30_Witness ==
    /\ trade_result.success
    /\ Len(bank.trades) > 0
    /\ bank.trades[Len(bank.trades)].action = "Sell"
    /\ FirstPosition(bank.positions, "default_user",
                     bank.trades[Len(bank.trades)].symbol) = 0
    /\ Len(bank.positions) > 0

====
